---- MODULE Spec2Model ----
(***************************************************************************)
(* provers-benchmark: the monitored external-process execution pipeline.   *)
(*                                                                         *)
(* Spec        one call of run_benchmark (benchmark.py) with the child     *)
(*             process, its two output pipes and the two reader threads    *)
(*             interleaved with the supervisor's poll loop.                *)
(* FairSpec    Spec with the fairness the scheduler gives the supervisor   *)
(*             thread, the reader threads and a delivered SIGKILL.         *)
(* MainSpec    the session of provers_benchmark.py __main__.               *)
(* MonSpec     MonitoredProcess used through its methods, in any order.    *)
(* ClassifySpec  the status assigned to an exited solver (test.py).        *)
(* LaunchSpec  the command line and stdin of every shape of test suite.    *)
(* EnvSpec     the environment handed to successive children (_common.py). *)
(* SampleSpec  successive samples of the child's I/O counters (stats.py).  *)
(* ValidateSpec  Translator.validate on every shape of translator.         *)
(* FilterSpec  TestCase.filter_inputs on every list of inputs.             *)
(* AsFormatSpec  TestCase.run driving TestInput.as_format.                 *)
(* LoadSpec    Config.load_config on every shape of configuration file.    *)
(*                                                                         *)
(* Time is counted in ticks of one poll interval (0.1 s).  Text is a       *)
(* sequence of chunks; the child's n-th chunk on a stream is the number n, *)
(* so ''.join and += are sequence concatenation.                           *)
(***************************************************************************)
EXTENDS Integers, Sequences, FiniteSets, TLC

VARIABLES
    test_suite,     \* argument of run_benchmark: the TestSuite
    input_path,     \* argument of run_benchmark: what __main__ passes as file
    timeout,        \* argument of run_benchmark: config.general.test_timeout (s)
    pc,             \* position of the supervisor inside run_benchmark
    child,          \* OS state of the child process
    exitcode,       \* exit status the OS holds for the child
    returncode,     \* Popen.returncode, set only when poll() reaps the child
    written,        \* per stream: number of chunks the child has written
    pipe,           \* per stream: chunks in the OS pipe, not yet read
    queue,          \* per stream: chunks in the reader's queue
    drained,        \* per stream: everything readall() has returned, in call order
    fresh,          \* per stream: a chunk was queued since the last readall()
    out_stats,      \* OutputStatistics: status, stdout, stderr
    exec_stats,     \* ExecutionStatistics of the MonitoredProcess
    elapsed,        \* time.time() - proc._start, in ticks (saturating)
    sinceRead,      \* time.time() - last_read, in ticks (saturating)
    free,           \* last psutil.virtual_memory().free sample, in MiB
    classified,     \* whether parse_output was called in this run
    config,         \* __main__: the BenchmarkConfig read from the file
    mpc,            \* __main__: position in the script
    cursor,         \* __main__: the (test_suite, test_input, file) loop indices
    file,           \* __main__: the loop variable file (a path, or what translate returned)
    result,         \* __main__: what run_benchmark returned for the current triple
    report,         \* __main__: stats.test_runs
    failed,         \* __main__: the triples at which a run-local error was raised
    executed,       \* __main__: the translations whose command was run, in order
    launched,       \* what Popen was given: the command line and stdin
    api,            \* MonitoredProcess: the last method called and what it returned
    cls,            \* TestCase.run: executable, return code, output and status
    env,            \* execute: os.environ["PATH"] and the PATH given to the last child
    smp,            \* ExecutionStatistics.update: the statistics and the last sample
    val,            \* Translator.validate: the translator and the errors returned
    flt,            \* TestCase.filter_inputs: the lists and the result
    gen,            \* TestInput.as_format: the generator and what it has yielded
    ld              \* Config.load_config: the file, the registries, the outcome

runArgs == <<test_suite, input_path, timeout>>
procVars == <<child, exitcode, returncode>>
streamVars == <<written, pipe, queue, drained, fresh>>
clockVars == <<elapsed, sinceRead>>
libVars == <<env, smp, val, flt, gen, ld>>
auxVars == <<launched, api, cls, libVars>>
mainVars == <<config, mpc, cursor, file, result, report, failed, executed>>
runVars == <<test_suite, input_path, timeout, pc, child, exitcode, returncode,
             written, pipe, queue, drained, fresh, out_stats, exec_stats,
             elapsed, sinceRead, free, classified>>
vars == <<test_suite, input_path, timeout, pc, child, exitcode, returncode,
          written, pipe, queue, drained, fresh, out_stats, exec_stats,
          elapsed, sinceRead, free, classified,
          config, mpc, cursor, file, result, report, failed, executed,
          launched, api, cls, env, smp, val, flt, gen, ld>>

(***************************************************************************)
(* Bounds of the model.                                                    *)
(***************************************************************************)
MaxChunks == 1
MaxTimeout == 1
MaxSuites == 2
MaxInputs == 2
MaxFiles == 1
MaxTranslators == 1
MaxRss == 2
MaxTicks == 3
MaxRuns == 5
MaxSamples == 2
MaxCount == 1

(***************************************************************************)
(* Program constants.                                                      *)
(***************************************************************************)
SleepTicks == 1
TicksPerSecond == 10
DrainPeriod == 10
MemFloor == 100
PipeCap == 1
KillCode == -9
None == -1000
NoText == <<0>>

Streams == {"stdout", "stderr"}
InputModes == {"STDIN", "ARGUMENT"}
Executables == {"prover9", "echo"}
INPUT_PATH_TEMPLATE == "$INPUT_PATH"
OUTPUT_PATH_TEMPLATE == "$OUTPUT_PATH"
ArgLists == {<<>>, <<INPUT_PATH_TEMPLATE, INPUT_PATH_TEMPLATE>>}
Commands == {<<e>> \o args : e \in Executables, args \in ArgLists}

\* INPUT_PATH_TEMPLATE in command
InCommand(template, command) == \E i \in DOMAIN command : command[i] = template
RssLevels == 1..MaxRss
InputPaths == {"file", "unreadable", "tuple"}
ExitCodes == {0, 1}
FreeLevels == {MemFloor - 1, MemFloor}
SATStatus == {"ERROR", "SATISFIABLE", "UNSATISFIABLE", "UNKOWN", "TIMEOUT", "OUT_OF_MEMORY"}
ParserVerdicts == {"ERROR", "SATISFIABLE", "UNSATISFIABLE", "UNKOWN"}
Parsers == {"prover9", "spass", "inkresat"}

Min(a, b) == IF a < b THEN a ELSE b

ElapsedCap(t) == t * TicksPerSecond + 1
SinceReadCap == DrainPeriod + 1

(***************************************************************************)
(* Pure parts of the code.                                                 *)
(***************************************************************************)
\* parsers.py get_output_parser: the lookup table's .get(key), None when absent
get_output_parser(solver) == IF solver \in Parsers THEN solver ELSE "None"

\* utils.py executable_name: the base name of the command's first word
executable_name(command) == command[1]

\* mutant: only the first occurrence is replaced
replace_first(command, old, new) ==
    [i \in DOMAIN command |->
        IF command[i] = old /\ \A j \in 1..(i - 1) : command[j] # old
        THEN new ELSE command[i]]

\* str.replace on the words of a command line
replace(command, old, new) ==
    [i \in DOMAIN command |-> IF command[i] = old THEN new ELSE command[i]]

\* utils.py build_command
build_command(command, input_file, input_mode, output_file, output_mode) ==
    LET with_input == IF input_mode = "ARGUMENT"
                      THEN replace(command, INPUT_PATH_TEMPLATE, input_file)
                      ELSE command
    IN IF output_mode = "ARGUMENT"
       THEN replace(with_input, OUTPUT_PATH_TEMPLATE, output_file)
       ELSE with_input

\* benchmark.py:45  subprocess.DEVNULL if input_mode == ARGUMENT else open(input_path)
stdin_for(input_mode, path) == IF input_mode = "ARGUMENT" THEN "DEVNULL" ELSE path

\* stats.py ExecutionStatistics.update, the memory part: the peak only ratchets up
update(stats, rss) ==
    [stats EXCEPT !.peak_memory = IF @ = None \/ @ < rss THEN rss ELSE @]

\* MonitoredProcess.__exit__: exec_stats.execution_time = time.time() - self._start
__exit__(stats, now) == [stats EXCEPT !.execution_time = now]

\* benchmark.py:53  proc.exec_stats.execution_time > timeout
TimedOut(execution_time, t) == execution_time > t * TicksPerSecond

\* mutant: the floor itself already counts as low memory
LowMemoryAtFloor(f) == f <= MemFloor

\* benchmark.py:57  psutil.virtual_memory().free < 100 * 1024 * 1024
LowMemory(f) == f < MemFloor

\* benchmark.py:61  time.time() - last_read > 1
ReadDue(since) == since > DrainPeriod

\* mutant: only TIMEOUT pre-empts the parser
SkipParserOnTimeoutOnly(status) == status \in {"TIMEOUT"}

\* benchmark.py:70  the supervisor's verdicts pre-empt the parser
SkipParser(status) == status \in {"OUT_OF_MEMORY", "TIMEOUT"}

\* benchmark.py:62-63  out_stats.stdout = ''.join(readall())
PeriodicCapture(old, chunks) == chunks

\* benchmark.py:65-67  out_stats.stdout += ''.join(readall())
FinalCapture(old, chunks) == old \o chunks

\* NonBlockingStreamReader.readall: returns the queued chunks ...
readall(q) == q

\* mutant: readall() returns the queue without emptying it
readall_keep(q) == q

\* ... and leaves the queue empty
readall_rest(q) == <<>>

\* mutant: the signal is never sent
kill_ignored(c) == c

\* Popen.kill: SIGKILL to a live child, nothing for one that is gone
kill(c) == IF c = "running" THEN "killed" ELSE c

(***************************************************************************)
(* Init: run_benchmark is about to be called.                              *)
(***************************************************************************)
LaunchSuites == [command : Commands, input_mode : InputModes,
                 save_stdout : BOOLEAN, save_stderr : BOOLEAN]

\* Spec follows the runs of the commands that name their input; the shape of
\* the command matters to the launch only, which LaunchSpec covers in full
TestSuites == {ts \in LaunchSuites : InCommand(INPUT_PATH_TEMPLATE, ts.command)}

RunInit ==
    /\ pc = "start"
    /\ child = "none"
    /\ exitcode = None
    /\ returncode = None
    /\ written = [s \in Streams |-> 0]
    /\ pipe = [s \in Streams |-> <<>>]
    /\ queue = [s \in Streams |-> <<>>]
    /\ drained = [s \in Streams |-> <<>>]
    /\ fresh = [s \in Streams |-> FALSE]
    /\ out_stats = [status |-> "UNKOWN", stdout |-> <<>>, stderr |-> <<>>]
    /\ exec_stats = [execution_time |-> 0, peak_memory |-> None]
    /\ elapsed = 0
    /\ sinceRead = 0
    /\ free = MemFloor
    /\ classified = FALSE
    /\ launched = [command |-> <<>>, stdin |-> "none"]

\* the parts of the state that only MonSpec and ClassifySpec use
\* the parts of the state that belong to the functions checked on their own
\* (EnvSpec, SampleSpec, ValidateSpec, FilterSpec, AsFormatSpec, LoadSpec)
EnvIdle == env = <<>>
SmpIdle == smp = <<>>
ValIdle == val = <<>>
FltIdle == flt = <<>>
GenIdle == gen = <<>>
LdIdle == ld = <<>>
LibIdle == EnvIdle /\ SmpIdle /\ ValIdle /\ FltIdle /\ GenIdle /\ LdIdle

ApiIdle == api = [call |-> "none", ret |-> None]
ClsIdle == cls = [executable |-> "none", returncode |-> None, output |-> {},
                  status |-> "None", ran |-> FALSE]

AuxIdle == ApiIdle /\ ClsIdle /\ LibIdle

MainIdle ==
    /\ config = [test_suites |-> <<>>, test_inputs |-> <<>>, translators |-> <<>>]
    /\ mpc = "idle"
    /\ cursor = <<1, 1, 1>>
    /\ file = "file"
    /\ result = "none"
    /\ report = <<>>
    /\ failed = {}
    /\ executed = <<>>

\* no run_benchmark call, no session, no MonitoredProcess in use
RunIdle ==
    /\ test_suite = [command |-> <<"prover9">>, input_mode |-> "STDIN",
                     save_stdout |-> TRUE, save_stderr |-> TRUE]
    /\ input_path = "file"
    /\ timeout = 0
    /\ RunInit
    /\ MainIdle
    /\ ApiIdle

Init ==
    /\ test_suite \in TestSuites
    /\ input_path \in InputPaths
    /\ timeout \in 0..MaxTimeout
    /\ RunInit
    /\ AuxIdle
    /\ MainIdle

(***************************************************************************)
(* The child process and the operating system.                             *)
(***************************************************************************)
\* the child writes its next chunk; write() blocks while the pipe is full
ChildWrite(s) ==
    /\ child = "running"
    /\ written[s] < MaxChunks
    /\ Len(pipe[s]) < PipeCap
    /\ written' = [written EXCEPT ![s] = @ + 1]
    /\ pipe' = [pipe EXCEPT ![s] = Append(@, written[s] + 1)]
    /\ UNCHANGED <<auxVars, mainVars, runArgs, pc, procVars, queue, drained, fresh, out_stats,
                   exec_stats, clockVars, free, classified>>

\* the child exits on its own
ChildExit ==
    /\ child = "running"
    /\ \E rc \in ExitCodes : exitcode' = rc
    /\ child' = "dead"
    /\ UNCHANGED <<auxVars, mainVars, runArgs, pc, returncode, streamVars, out_stats, exec_stats,
                   clockVars, free, classified>>

\* a sent SIGKILL takes effect
ChildDie ==
    /\ child = "killed"
    /\ child' = "dead"
    /\ exitcode' = KillCode
    /\ UNCHANGED <<auxVars, mainVars, runArgs, pc, returncode, streamVars, out_stats, exec_stats,
                   clockVars, free, classified>>

(***************************************************************************)
(* NonBlockingStreamReader: the background thread of one stream.           *)
(***************************************************************************)
ReaderStep(s) ==
    /\ child # "none"
    /\ pipe[s] # <<>>
    /\ queue' = [queue EXCEPT ![s] = Append(@, Head(pipe[s]))]
    /\ pipe' = [pipe EXCEPT ![s] = Tail(@)]
    /\ fresh' = [fresh EXCEPT ![s] = TRUE]
    /\ UNCHANGED <<auxVars, mainVars, runArgs, pc, procVars, written, drained, out_stats, exec_stats,
                   clockVars, free, classified>>

\* one readall() call of the supervisor on stream s
Drain(s) ==
    /\ queue' = [queue EXCEPT ![s] = readall_rest(queue[s])]
    /\ drained' = [drained EXCEPT ![s] = @ \o readall(queue[s])]
    /\ fresh' = [fresh EXCEPT ![s] = FALSE]
    /\ UNCHANGED <<written, pipe>>

(***************************************************************************)
(* run_benchmark, one step per statement group.                            *)
(***************************************************************************)
\* benchmark.py:43-50 and MonitoredProcess.__init__: build the command, open
\* stdin, launch, attach the two readers.  A tuple (the result of a failed
\* translation) is no path: str.replace and open both raise TypeError; a
\* file that cannot be opened raises in open(input_path).
Start ==
    /\ pc = "start"
    /\ IF \/ input_path = "tuple"
          \/ (test_suite.input_mode = "STDIN" /\ input_path = "unreadable")
       THEN /\ pc' = "raised"
            /\ UNCHANGED <<child, launched>>
       ELSE /\ pc' = "init_poll"
            /\ child' = "running"
            /\ launched' = [command |-> build_command(test_suite.command, input_path,
                                            test_suite.input_mode, "None", "None"),
                            stdin |-> stdin_for(test_suite.input_mode, input_path)]
    /\ UNCHANGED <<libVars, api, cls, mainVars, runArgs, exitcode, returncode, streamVars, out_stats,
                   exec_stats, clockVars, free, classified>>

\* MonitoredProcess.poll: the return code of a child that has exited, without
\* a sample; a sample of a child that has not
poll ==
    IF child = "dead"
    THEN /\ returncode' = exitcode
         /\ UNCHANGED exec_stats
    ELSE /\ \E rss \in RssLevels : exec_stats' = update(exec_stats, rss)
         /\ UNCHANGED returncode

\* MonitoredProcess.__init__, its last statement: self.poll()
InitPoll ==
    /\ pc = "init_poll"
    /\ poll
    /\ pc' = "poll"
    /\ UNCHANGED <<auxVars, mainVars, runArgs, child, exitcode, streamVars, out_stats,
                   clockVars, free, classified>>

\* benchmark.py:51 and MonitoredProcess.poll: a reaped child ends the loop,
\* a live one is sampled
Poll ==
    /\ pc = "poll"
    /\ poll
    /\ pc' = IF returncode' # None THEN "final_stdout" ELSE "sleep"
    /\ UNCHANGED <<auxVars, mainVars, runArgs, child, exitcode, streamVars, out_stats,
                   clockVars, free, classified>>

\* benchmark.py:52  time.sleep(0.1)
Sleep ==
    /\ pc = "sleep"
    /\ elapsed' = Min(elapsed + SleepTicks, ElapsedCap(timeout))
    /\ sinceRead' = Min(sinceRead + SleepTicks, SinceReadCap)
    /\ pc' = "check_timeout"
    /\ UNCHANGED <<auxVars, mainVars, runArgs, procVars, streamVars, out_stats, exec_stats, free,
                   classified>>

\* benchmark.py:53-56
CheckTimeout ==
    /\ pc = "check_timeout"
    /\ IF TimedOut(exec_stats.execution_time, timeout)
       THEN /\ child' = kill(child)
            /\ out_stats' = [out_stats EXCEPT !.status = "TIMEOUT"]
            /\ pc' = "final_stdout"
       ELSE /\ pc' = "check_memory"
            /\ UNCHANGED <<child, out_stats>>
    /\ UNCHANGED <<auxVars, mainVars, runArgs, exitcode, returncode, streamVars, exec_stats, clockVars,
                   free, classified>>

\* benchmark.py:57-60
CheckMemory ==
    /\ pc = "check_memory"
    /\ \E f \in FreeLevels :
        /\ free' = f
        /\ IF LowMemory(f)
           THEN /\ child' = kill(child)
                /\ out_stats' = [out_stats EXCEPT !.status = "OUT_OF_MEMORY"]
                /\ pc' = "final_stdout"
           ELSE /\ pc' = "read_stdout"
                /\ UNCHANGED <<child, out_stats>>
    /\ UNCHANGED <<auxVars, mainVars, runArgs, exitcode, returncode, streamVars, exec_stats, clockVars,
                   classified>>

\* benchmark.py:61-62
ReadStdout ==
    /\ pc = "read_stdout"
    /\ IF ReadDue(sinceRead)
       THEN /\ Drain("stdout")
            /\ out_stats' = [out_stats EXCEPT
                    !.stdout = PeriodicCapture(@, readall(queue["stdout"]))]
            /\ pc' = "read_stderr"
       ELSE /\ pc' = "poll"
            /\ UNCHANGED <<streamVars, out_stats>>
    /\ UNCHANGED <<auxVars, mainVars, runArgs, procVars, exec_stats, clockVars, free, classified>>

\* benchmark.py:63-64
ReadStderr ==
    /\ pc = "read_stderr"
    /\ Drain("stderr")
    /\ out_stats' = [out_stats EXCEPT
            !.stderr = PeriodicCapture(@, readall(queue["stderr"]))]
    /\ sinceRead' = 0
    /\ pc' = "poll"
    /\ UNCHANGED <<auxVars, mainVars, runArgs, procVars, exec_stats, elapsed, free, classified>>

\* benchmark.py:65
FinalStdout ==
    /\ pc = "final_stdout"
    /\ Drain("stdout")
    /\ out_stats' = [out_stats EXCEPT
            !.stdout = FinalCapture(@, readall(queue["stdout"]))]
    /\ pc' = "final_stderr"
    /\ UNCHANGED <<auxVars, mainVars, runArgs, procVars, exec_stats, clockVars, free, classified>>

\* benchmark.py:67
FinalStderr ==
    /\ pc = "final_stderr"
    /\ Drain("stderr")
    /\ out_stats' = [out_stats EXCEPT
            !.stderr = FinalCapture(@, readall(queue["stderr"]))]
    /\ pc' = "exit"
    /\ UNCHANGED <<auxVars, mainVars, runArgs, procVars, exec_stats, clockVars, free, classified>>

\* leaving the with block, MonitoredProcess.__exit__
\* exec_stats.execution_time = time.time() - self._start
Exit ==
    /\ pc = "exit"
    /\ exec_stats' = __exit__(exec_stats, elapsed)
    /\ pc' = "classify"
    /\ UNCHANGED <<auxVars, mainVars, runArgs, procVars, streamVars, out_stats, clockVars, free,
                   classified>>

\* benchmark.py:68-73: the lookup returns None for an unknown executable and
\* None.parse_output raises AttributeError
Classify ==
    /\ pc = "classify"
    /\ IF SkipParser(out_stats.status)
       THEN /\ pc' = "save"
            /\ UNCHANGED <<out_stats, classified>>
       ELSE IF get_output_parser(executable_name(launched.command)) = "None"
       THEN /\ pc' = "raised"
            /\ UNCHANGED <<out_stats, classified>>
       ELSE /\ \E v \in ParserVerdicts :
                    out_stats' = [out_stats EXCEPT !.status = v]
            /\ classified' = TRUE
            /\ pc' = "save"
    /\ UNCHANGED <<auxVars, mainVars, runArgs, procVars, streamVars, exec_stats, clockVars, free>>

\* benchmark.py:74-81
Save ==
    /\ pc = "save"
    /\ out_stats' = [out_stats EXCEPT
            !.stdout = IF ~test_suite.save_stdout \/ ~test_suite.save_stderr
                       THEN NoText ELSE @]
    /\ pc' = "done"
    /\ UNCHANGED <<auxVars, mainVars, runArgs, procVars, streamVars, exec_stats, clockVars, free,
                   classified>>

Next ==
    \/ Start
    \/ InitPoll
    \/ Poll
    \/ Sleep
    \/ CheckTimeout
    \/ CheckMemory
    \/ ReadStdout
    \/ ReadStderr
    \/ FinalStdout
    \/ FinalStderr
    \/ Exit
    \/ Classify
    \/ Save
    \/ ChildExit
    \/ ChildDie
    \/ \E s \in Streams : ChildWrite(s)
    \/ \E s \in Streams : ReaderStep(s)

Spec == Init /\ [][Next]_vars

\* the launch of run_benchmark (benchmark.py:43-50) for every shape of command
LaunchInit ==
    /\ test_suite \in LaunchSuites
    /\ input_path \in InputPaths
    /\ timeout \in 0..MaxTimeout
    /\ RunInit
    /\ AuxIdle
    /\ MainIdle

LaunchSpec == LaunchInit /\ [][Start]_vars

\* the steps of the supervisor thread
Supervisor ==
    \/ Start \/ InitPoll \/ Poll \/ Sleep \/ CheckTimeout \/ CheckMemory \/ ReadStdout
    \/ ReadStderr \/ FinalStdout \/ FinalStderr \/ Exit \/ Classify \/ Save

\* The supervisor thread and the reader threads are scheduled, and a SIGKILL
\* that was sent is delivered; nothing obliges the child to exit or to write.
FairSpec ==
    /\ Spec
    /\ WF_vars(Supervisor)
    /\ \A s \in Streams : WF_vars(ReaderStep(s))
    /\ WF_vars(ChildDie)

(***************************************************************************)
(* MonitoredProcess on its own (MonSpec): a caller that constructs it and  *)
(* then calls poll, kill, stop and get_statistics in any order while time  *)
(* passes and the child runs.                                              *)
(***************************************************************************)
MonInit ==
    /\ test_suite = [command |-> <<"prover9">>, input_mode |-> "STDIN",
                     save_stdout |-> TRUE, save_stderr |-> TRUE]
    /\ input_path = "file"
    /\ timeout = 0
    /\ RunInit
    /\ AuxIdle
    /\ MainIdle

Constructed == api.call \notin {"none", "launching"}

\* MonitoredProcess.__init__ up to self._start = time.time()
MonLaunch ==
    /\ api.call = "none"
    /\ child' = "running"
    /\ elapsed' = 0
    /\ api' = [call |-> "launching", ret |-> None]
    /\ UNCHANGED <<libVars, launched, cls, mainVars, runArgs, pc, exitcode, returncode, streamVars,
                   out_stats, exec_stats, sinceRead, free, classified>>

\* MonitoredProcess.__init__, its last statement: self.poll()
MonInitPoll ==
    /\ api.call = "launching"
    /\ poll
    /\ api' = [call |-> "__init__", ret |-> None]
    /\ UNCHANGED <<libVars, launched, cls, mainVars, runArgs, pc, child, exitcode, streamVars,
                   out_stats, clockVars, free, classified>>

\* proc.poll()
MonPoll ==
    /\ Constructed
    /\ poll
    /\ api' = [call |-> "poll", ret |-> returncode']
    /\ UNCHANGED <<libVars, launched, cls, mainVars, runArgs, pc, child, exitcode, streamVars,
                   out_stats, clockVars, free, classified>>

\* proc.kill()
MonKill ==
    /\ Constructed
    /\ child' = kill(child)
    /\ api' = [call |-> "kill", ret |-> None]
    /\ UNCHANGED <<libVars, launched, cls, mainVars, runArgs, pc, exitcode, returncode, streamVars,
                   out_stats, exec_stats, clockVars, free, classified>>

\* proc.stop(): self.__exit__(None, None, None)
MonStop ==
    /\ Constructed
    /\ exec_stats' = __exit__(exec_stats, elapsed)
    /\ api' = [call |-> "stop", ret |-> None]
    /\ UNCHANGED <<libVars, launched, cls, mainVars, runArgs, pc, procVars, streamVars,
                   out_stats, clockVars, free, classified>>

\* proc.get_statistics(): returns self.exec_stats (here: its execution_time)
MonGetStatistics ==
    /\ Constructed
    /\ api' = [call |-> "get_statistics", ret |-> exec_stats.execution_time]
    /\ UNCHANGED <<libVars, launched, cls, mainVars, runArgs, pc, procVars, streamVars,
                   out_stats, exec_stats, clockVars, free, classified>>

\* time.time() advances
Tick ==
    /\ api.call # "none"
    /\ elapsed < MaxTicks
    /\ elapsed' = elapsed + 1
    /\ UNCHANGED <<auxVars, mainVars, runArgs, pc, procVars, streamVars,
                   out_stats, exec_stats, sinceRead, free, classified>>

MonNext ==
    \/ MonLaunch
    \/ MonInitPoll
    \/ MonPoll
    \/ MonKill
    \/ MonStop
    \/ MonGetStatistics
    \/ Tick
    \/ ChildExit
    \/ ChildDie

MonSpec == MonInit /\ [][MonNext]_vars

(***************************************************************************)
(* The status of an exited solver (ClassifySpec): test.py TestCase.run     *)
(* after proc.communicate().  The output is the set of the known phrases   *)
(* that occur in it.                                                       *)
(***************************************************************************)
ClsExecutables == {"prover9", "SPASS", "other"}
ReturnCodes == {KillCode, 0, 1}
Markers == {"THEOREM PROVED", "SEARCH FAILED", "nSPASS beiseite: Proof found"}

\* mutant: only a positive return code counts as a failure
FailedPositive(rc) == rc > 0

\* test.py:244  proc.returncode != 0
Failed(rc) == rc # 0

\* mutant: the failure phrase is looked for first
prover9_status_failed_first(output, status) ==
    IF "SEARCH FAILED" \in output THEN "UNSATISFIABLE"
    ELSE IF "THEOREM PROVED" \in output THEN "SATISFIABLE"
    ELSE status

\* test.py:249-253  the partial prover9 parser
prover9_status(output, status) ==
    IF "THEOREM PROVED" \in output THEN "SATISFIABLE"
    ELSE IF "SEARCH FAILED" \in output THEN "UNSATISFIABLE"
    ELSE status

\* test.py:255-256
spass_status(output, status) ==
    IF "nSPASS beiseite: Proof found" \in output THEN "SATISFIABLE" ELSE status

\* test.py:244-256  out_stats.status after the if/elif chain
status_of(executable, rc, output, status) ==
    IF Failed(rc) THEN "ERROR"
    ELSE IF executable = "prover9" THEN prover9_status(output, status)
    ELSE IF executable = "SPASS" THEN spass_status(output, status)
    ELSE status

\* test.py:241-242  OutputStatistics(returncode=proc.returncode), status None
ClsInit ==
    /\ cls \in [executable : ClsExecutables, returncode : ReturnCodes,
                 output : SUBSET Markers, status : {"None"}, ran : {FALSE}]
    /\ RunIdle
    /\ LibIdle

\* test.py:244-258
SetStatus ==
    /\ ~cls.ran
    /\ cls' = [cls EXCEPT !.status = status_of(cls.executable, cls.returncode,
                                                cls.output, cls.status),
                          !.ran = TRUE]
    /\ UNCHANGED <<libVars, launched, api, mainVars, runVars>>

ClassifySpec == ClsInit /\ [][SetStatus]_vars

(***************************************************************************)
(* The environment of the children (EnvSpec): _common.py execute called    *)
(* for one run after another.  PATH is the sequence of its directories.    *)
(***************************************************************************)
OriginalPath == <<"/usr/bin">>
Prefixes == {"None", "/opt/a", "/opt/b"}

\* _common.py:22-24  env = os.environ; env["PATH"] = PATH + ":" + env["PATH"]
\* env is os.environ itself, so the assignment changes os.environ
prepend(PATH, environ) == IF PATH # "None" THEN <<PATH>> \o environ ELSE environ

EnvInit ==
    /\ env = [environ |-> OriginalPath, given |-> <<>>, PATH |-> "None", runs |-> 0]
    /\ RunIdle
    /\ ClsIdle
    /\ SmpIdle /\ ValIdle /\ FltIdle /\ GenIdle /\ LdIdle

\* one call of execute: the child gets env, which is os.environ
Execute ==
    /\ env.runs < MaxRuns
    /\ \E PATH \in Prefixes :
            env' = [environ |-> prepend(PATH, env.environ),
                    given |-> prepend(PATH, env.environ),
                    PATH |-> PATH,
                    runs |-> env.runs + 1]
    /\ UNCHANGED <<launched, api, cls, smp, val, flt, gen, ld, mainVars, runVars>>

EnvSpec == EnvInit /\ [][Execute]_vars

(***************************************************************************)
(* One resource sample after another (SampleSpec): statistics/stats.py     *)
(* ExecutionStatistics.update with the I/O counters, the memory and the    *)
(* CPU times psutil gives for the child, or its refusal of the counters.   *)
(***************************************************************************)
IoCounters == [denied : BOOLEAN, read_bytes : 0..MaxCount, read_chars : 0..MaxCount,
               write_bytes : 0..MaxCount, write_chars : 0..MaxCount]
Samples == [io : {c \in IoCounters : c.denied => c = [denied |-> TRUE, read_bytes |-> 0,
                        read_chars |-> 0, write_bytes |-> 0, write_chars |-> 0]},
            rss : RssLevels, cpu : 1..MaxSamples]

\* psutil: proc.io_counters() raises AccessDenied when the OS refuses
io_counters(io) == IF io.denied THEN "AccessDenied" ELSE "None"

\* mutant: no except clause
caught_nothing(exception) == FALSE

\* stats.py:26  except psutil.AccessDenied
caught(exception) == exception = "AccessDenied"

\* stats.py:22-27  the try block: the disk counters of a sample that has them
update_io(stats, io) ==
    IF io_counters(io) # "None" THEN stats
    ELSE [stats EXCEPT !.disk_reads = io.read_bytes + io.read_chars,
                       !.disk_writes = io.write_bytes + io.read_chars]

SampleInit ==
    /\ smp = [stats |-> [peak_memory |-> None, disk_reads |-> None,
                         disk_writes |-> None, cpu_time |-> None],
              last |-> [io |-> [denied |-> FALSE, read_bytes |-> 0, read_chars |-> 0,
                                write_bytes |-> 0, write_chars |-> 0],
                        rss |-> 1, cpu |-> 1],
              n |-> 0, raised |-> FALSE]
    /\ RunIdle
    /\ ClsIdle
    /\ EnvIdle /\ ValIdle /\ FltIdle /\ GenIdle /\ LdIdle

\* stats.py:21-33  one call of update; an exception that is not caught leaves
\* update before the memory and CPU statements
Sample ==
    /\ smp.n < MaxSamples
    /\ ~smp.raised
    /\ \E s \in Samples :
            smp' = IF io_counters(s.io) # "None" /\ ~caught(io_counters(s.io))
                   THEN [smp EXCEPT !.last = s, !.n = @ + 1, !.raised = TRUE]
                   ELSE [smp EXCEPT !.last = s, !.n = @ + 1,
                            !.stats = [update(update_io(smp.stats, s.io), s.rss)
                                            EXCEPT !.cpu_time = s.cpu]]
    /\ UNCHANGED <<launched, api, cls, env, val, flt, gen, ld, mainVars, runVars>>

SampleSpec == SampleInit /\ [][Sample]_vars

(***************************************************************************)
(* The inputs of a test case (FilterSpec): src/test.py                     *)
(* TestCase.filter_inputs.  A test input is its name; include_only and     *)
(* exclude are used for membership only and are sets here.                 *)
(***************************************************************************)
MaxFiltered == 2
InputNames == {"a", "b", "c"}
InputLists == UNION {[1..m -> InputNames] : m \in 0..MaxFiltered}

\* TestCase.__post_init__ raises when both lists are set
TestCases == {c \in [include_only : SUBSET InputNames, exclude : SUBSET InputNames] :
                ~(c.exclude # {} /\ c.include_only # {})}

filter_inputs(self, test_inputs) ==
    LET included(name) == name \in self.include_only
        not_included(name) == name \notin self.include_only
    IN IF self.include_only = {} /\ self.exclude = {} THEN test_inputs
       ELSE IF self.include_only # {} THEN SelectSeq(test_inputs, included)
       ELSE IF self.exclude # {} THEN SelectSeq(test_inputs, not_included)
       ELSE <<>>

FilterInit ==
    /\ flt \in [test_case : TestCases, test_inputs : InputLists,
                 result : {<<>>}, ran : {FALSE}]
    /\ RunIdle /\ ClsIdle /\ EnvIdle /\ SmpIdle /\ ValIdle /\ GenIdle /\ LdIdle

FilterInputs ==
    /\ ~flt.ran
    /\ flt' = [flt EXCEPT !.result = filter_inputs(flt.test_case, flt.test_inputs),
                          !.ran = TRUE]
    /\ UNCHANGED <<launched, api, cls, env, smp, val, gen, ld, mainVars, runVars>>

FilterSpec == FilterInit /\ [][FilterInputs]_vars

(***************************************************************************)
(* One test case against one test input (AsFormatSpec): src/test.py        *)
(* TestCase.run drives the generator TestInput.as_format and yields one    *)
(* record per pair it gets.  A step is one resumption of the generator.    *)
(***************************************************************************)
MaxGenFiles == 3
FileNames == {"f", "g"}
FileLists == UNION {[1..m -> FileNames] : m \in 1..MaxGenFiles}

AsFormatInit ==
    /\ gen \in [files : FileLists, same_format : BOOLEAN, translator : BOOLEAN,
                 pc : {"start"}, pos : {1}, records : {<<>>}]
    /\ RunIdle /\ ClsIdle /\ EnvIdle /\ SmpIdle /\ ValIdle /\ FltIdle /\ LdIdle

\* the branch of the required format: the first file is yielded, and the
\* return inside the loop body ends the generator at the next resumption
YieldSame ==
    /\ gen.same_format
    /\ \/ /\ gen.pc = "start"
          /\ gen' = [gen EXCEPT !.pc = "yielded",
                                !.records = Append(@, gen.files[gen.pos])]
       \/ /\ gen.pc = "yielded"
          /\ gen' = [gen EXCEPT !.pc = "done"]
    /\ UNCHANGED <<launched, api, cls, env, smp, val, flt, ld, mainVars, runVars>>

\* the for/else over TestInput.translators finds none
RaiseNoTranslator ==
    /\ ~gen.same_format /\ ~gen.translator
    /\ gen.pc = "start"
    /\ gen' = [gen EXCEPT !.pc = "raised"]
    /\ UNCHANGED <<launched, api, cls, env, smp, val, flt, ld, mainVars, runVars>>

\* the translating loop: one file translated and yielded per resumption
YieldTranslated ==
    /\ ~gen.same_format /\ gen.translator
    /\ gen.pc \in {"start", "yielded"}
    /\ IF gen.pos <= Len(gen.files)
       THEN gen' = [gen EXCEPT !.pc = "yielded", !.pos = @ + 1,
                               !.records = Append(@, gen.files[gen.pos])]
       ELSE gen' = [gen EXCEPT !.pc = "done"]
    /\ UNCHANGED <<launched, api, cls, env, smp, val, flt, ld, mainVars, runVars>>

AsFormatNext == YieldSame \/ RaiseNoTranslator \/ YieldTranslated

AsFormatSpec == AsFormatInit /\ [][AsFormatNext]_vars

(***************************************************************************)
(* Loading a configuration (LoadSpec): src/config.py Config.load_config.   *)
(* An entry of a section is what the loader does with it: "ok" is parsed   *)
(* and verified, "missing_key" lacks a required key (the DictPoper of the  *)
(* entry records the error), "rejected" makes the constructor or verify    *)
(* raise BenchmarkException (Config._error records it).  A translator      *)
(* carries its to_format, a test suite the format of its test case.        *)
(***************************************************************************)
MaxEntries == 2
Kinds == {"ok", "missing_key", "rejected"}
Entries == [kind : Kinds, format : {"tptp", "ladr"}]
EntryLists == UNION {[1..m -> Entries] : m \in 0..MaxEntries}
InputEntryLists == UNION {[1..m -> [kind : Kinds, format : {"tptp"}]] :
                            m \in 0..MaxEntries}
ConfigFiles == [exists : BOOLEAN, general : BOOLEAN, translators : EntryLists,
                testInputs : InputEntryLists, testSuites : EntryLists]

\* Config._load_translators: the registry and whether Config._error was called.
\* An entry with a missing key is skipped; a second translator to the same
\* format is skipped with a warning.
RECURSIVE _load_translators(_, _)
_load_translators(translators_config, registry) ==
    IF translators_config = <<>> THEN [loaded |-> registry, error |-> FALSE]
    ELSE LET entry == Head(translators_config)
             kept == IF /\ entry.kind = "ok"
                        /\ \A i \in DOMAIN registry : registry[i].format # entry.format
                     THEN Append(registry, entry) ELSE registry
             rest == _load_translators(Tail(translators_config), kept)
         IN [loaded |-> rest.loaded, error |-> rest.error \/ entry.kind = "rejected"]

\* Config._load_test_inputs
_load_test_inputs(test_inputs_config) ==
    LET ok(entry) == entry.kind = "ok"
    IN [loaded |-> SelectSeq(test_inputs_config, ok),
        error |-> \/ test_inputs_config = <<>>
                  \/ \E i \in DOMAIN test_inputs_config :
                        test_inputs_config[i].kind = "rejected"]

\* Config._load_test_suites with _load_test_cases: the format of the test case
\* has to be the to_format of a registered translator
_load_test_suites(test_suites_config, registry) ==
    LET ok(entry) == entry.kind = "ok"
        achievable(entry) == \E i \in DOMAIN registry : registry[i].format = entry.format
    IN [loaded |-> SelectSeq(test_suites_config, ok),
        error |-> \E i \in DOMAIN test_suites_config :
                    \/ test_suites_config[i].kind = "rejected"
                    \/ (test_suites_config[i].kind = "ok"
                            /\ ~achievable(test_suites_config[i]))]

\* Config.load_config on a fresh Config: how the call ends and what the three
\* collections hold afterwards
load_config(config_file) ==
    LET empty == [translators |-> <<>>, test_inputs |-> <<>>, test_suites |-> <<>>]
        translators == _load_translators(config_file.translators, <<>>)
        test_inputs == _load_test_inputs(config_file.testInputs)
        test_suites == _load_test_suites(config_file.testSuites, translators.loaded)
    IN IF ~config_file.exists
       THEN [outcome |-> "returned", errors_occured |-> TRUE] @@ empty
       ELSE IF ~config_file.general
       THEN [outcome |-> "AttributeError", errors_occured |-> TRUE] @@ empty
       ELSE IF translators.error \/ test_inputs.error \/ test_suites.error
       THEN [outcome |-> "ConfigException", errors_occured |-> TRUE] @@ empty
       ELSE [outcome |-> "returned", errors_occured |-> FALSE,
             translators |-> translators.loaded, test_inputs |-> test_inputs.loaded,
             test_suites |-> test_suites.loaded]

LoadInit ==
    /\ ld \in [config_file : ConfigFiles, ran : {FALSE},
                result : {[outcome |-> "none", errors_occured |-> FALSE,
                           translators |-> <<>>, test_inputs |-> <<>>,
                           test_suites |-> <<>>]}]
    /\ RunIdle /\ ClsIdle /\ EnvIdle /\ SmpIdle /\ ValIdle /\ FltIdle /\ GenIdle

LoadConfig ==
    /\ ~ld.ran
    /\ ld' = [ld EXCEPT !.result = load_config(ld.config_file), !.ran = TRUE]
    /\ UNCHANGED <<launched, api, cls, env, smp, val, flt, gen, mainVars, runVars>>

LoadSpec == LoadInit /\ [][LoadConfig]_vars

(***************************************************************************)
(* The session: provers_benchmark.py __main__ (MainSpec).  run_benchmark   *)
(* is one step here; RunOutcomes is what one call can end in.              *)
(***************************************************************************)
Formats == {"tptp", "ladr"}
MainSuites == [command : Commands, required_format : Formats, input_mode : InputModes]
TestInputs == [format : Formats, files : 1..MaxFiles]
TranslatorCommands == {<<"translator">> \o args : args \in ArgLists}
Translators == {t \in [from_format : Formats, to_format : Formats,
                        command : TranslatorCommands, input_mode : InputModes] :
                    t.from_format # t.to_format}
Lists(S, n) == UNION {[1..m -> S] : m \in 0..n}
Configs == [test_suites : Lists(MainSuites, MaxSuites) \ {<<>>},
            test_inputs : Lists(TestInputs, MaxInputs) \ {<<>>},
            translators : Lists(Translators, MaxTranslators)]

\* Python None where a Translator is expected
NoTranslator == [from_format |-> "None", to_format |-> "None", command |-> <<>>,
                 input_mode |-> "None"]

\* utils.py find_translator: the first translator of the pair, None if there is none
RECURSIVE find_translator(_, _, _)
find_translator(from_format, to_format, available_translators) ==
    IF available_translators = <<>> THEN NoTranslator
    ELSE IF /\ Head(available_translators).from_format = from_format
            /\ Head(available_translators).to_format = to_format
         THEN Head(available_translators)
         ELSE find_translator(from_format, to_format, Tail(available_translators))

\* config.py _check_input_mode: whether it returns an exception (TRUE) or None
_check_input_mode(input_mode, command) ==
    \/ (input_mode = "STDIN" /\ InCommand(INPUT_PATH_TEMPLATE, command))
    \/ (input_mode = "ARGUMENT" /\ ~InCommand(INPUT_PATH_TEMPLATE, command))

\* config.py _check_output_mode: whether it returns an exception (TRUE) or None.
\* The second test looks for $INPUT_PATH, as the source does.
_check_output_mode(output_mode, command) ==
    \/ (output_mode = "STDOUT" /\ InCommand(OUTPUT_PATH_TEMPLATE, command))
    \/ (output_mode = "ARGUMENT" /\ ~InCommand(INPUT_PATH_TEMPLATE, command))

\* config.py Translator.validate: the errors it returns.  The values of
\* _check_input_mode and _check_output_mode are computed and dropped; the
\* command is taken to be found.
Translator_validate(t) ==
    LET errors == {}
        input_checked == _check_input_mode(t.input_mode, t.command)
        output_checked == _check_output_mode(t.output_mode, t.command)
    IN errors

\* One translator validated (ValidateSpec): Translator.validate applied to
\* every shape of command and modes.
OutputModes == {"STDOUT", "ARGUMENT"}
PathArgLists == {<<>>, <<INPUT_PATH_TEMPLATE>>, <<OUTPUT_PATH_TEMPLATE>>,
                 <<INPUT_PATH_TEMPLATE, OUTPUT_PATH_TEMPLATE>>}
ValidatedTranslators ==
    [from_format : {"tptp", "ladr"}, to_format : {"tptp", "ladr"},
     command : {<<"translator">> \o args : args \in PathArgLists},
     input_mode : InputModes, output_mode : OutputModes]

ValidateInit ==
    /\ val \in [translator : ValidatedTranslators, errors : {{}}, ran : {FALSE}]
    /\ RunIdle /\ ClsIdle /\ EnvIdle /\ SmpIdle /\ FltIdle /\ GenIdle /\ LdIdle

ValidateTranslator ==
    /\ ~val.ran
    /\ val' = [val EXCEPT !.errors = Translator_validate(val.translator), !.ran = TRUE]
    /\ UNCHANGED <<launched, api, cls, env, smp, flt, gen, ld, mainVars, runVars>>

ValidateSpec == ValidateInit /\ [][ValidateTranslator]_vars

\* config.py TestSuite.validate: the errors it returns (command taken to be found)
TestSuite_validate(s) ==
    (IF get_output_parser(executable_name(s.command)) = "None" THEN {"solver"} ELSE {})
    \cup (IF _check_input_mode(s.input_mode, s.command) THEN {"input_mode"} ELSE {})

\* mutant: the pairs of formats are not looked at
validate_without_pairs(c) ==
    UNION {{<<e, i, 0>> : e \in TestSuite_validate(c.test_suites[i])} :
                i \in DOMAIN c.test_suites}

\* config.py BenchmarkConfig.validate: the errors it returns that depend on
\* the modelled fields (those of the translators and of the suites, the pairs
\* with no translator); patterns are taken to match files and input names to
\* be unique
validate(c) ==
    UNION {{<<e, i, 0>> : e \in Translator_validate(c.translators[i])} :
                i \in DOMAIN c.translators}
    \cup UNION {{<<e, i, 0>> : e \in TestSuite_validate(c.test_suites[i])} :
                i \in DOMAIN c.test_suites}
    \cup {<<"translation", p[1], p[2]>> : p \in {q \in (DOMAIN c.test_suites) \X (DOMAIN c.test_inputs) :
            /\ c.test_suites[q[1]].required_format # c.test_inputs[q[2]].format
            /\ find_translator(c.test_inputs[q[2]].format, c.test_suites[q[1]].required_format,
                               c.translators) = NoTranslator}}

\* benchmark.py run_benchmark as a whole: "raise", or the status it returns
RunOutcomes(ts, path, t) ==
    IF path = "tuple" \/ (ts.input_mode = "STDIN" /\ path = "unreadable")
    THEN {"raise"}
    ELSE (IF TimedOut(0, t) THEN {"TIMEOUT"} ELSE {})
         \cup {v \in SATStatus : v = "OUT_OF_MEMORY" /\ \E f \in FreeLevels : LowMemory(f)}
         \cup (IF get_output_parser(executable_name(ts.command)) = "None"
                THEN {"raise"} ELSE ParserVerdicts)

\* the loop variables after the current triple; <<0, 0, 0>> when the loops are over
NextCursor(c, cur) ==
    IF cur[3] < c.test_inputs[cur[2]].files THEN <<cur[1], cur[2], cur[3] + 1>>
    ELSE IF cur[2] < Len(c.test_inputs) THEN <<cur[1], cur[2] + 1, 1>>
    ELSE IF cur[1] < Len(c.test_suites) THEN <<cur[1] + 1, 1, 1>>
    ELSE <<0, 0, 0>>

IdleSuite == [command |-> <<"prover9">>, input_mode |-> "STDIN",
              save_stdout |-> TRUE, save_stderr |-> TRUE]

MainInit ==
    /\ config \in Configs
    /\ timeout \in 0..MaxTimeout
    /\ mpc = "validate"
    /\ cursor = <<1, 1, 1>>
    /\ file = "file"
    /\ result = "none"
    /\ report = <<>>
    /\ failed = {}
    /\ executed = <<>>
    /\ test_suite = IdleSuite
    /\ input_path = "file"
    /\ RunInit
    /\ AuxIdle

\* provers_benchmark.py:84-90  errors in the config end the program
Validate ==
    /\ mpc = "validate"
    /\ mpc' = IF validate(config) # {} THEN "exit" ELSE "translate"
    /\ UNCHANGED <<auxVars, runVars, config, cursor, file, result, report, failed, executed>>

\* benchmark.py get_cache_location: the output file of a translation, named
\* after the translator's command, the format pair and the input file
get_cache_location(translator, input_file) ==
    <<executable_name(translator.command), translator.from_format,
      translator.to_format, input_file>>

\* provers_benchmark.py:106-112 with benchmark.py translate: the file of the
\* triple, or what translate returned for it (the output path, or the tuple
\* (None, err) when the translator failed); translate raises when a stdin
\* translator's input cannot be opened, and otherwise runs the translator's
\* command whatever the cache location holds
Translate ==
    /\ mpc = "translate"
    /\ LET ts == config.test_suites[cursor[1]]
           ti == config.test_inputs[cursor[2]]
           translator == find_translator(ti.format, ts.required_format, config.translators)
       IN \E readable \in BOOLEAN :
            IF ts.required_format = ti.format
            THEN /\ file' = IF readable THEN "file" ELSE "unreadable"
                 /\ mpc' = "run"
                 /\ UNCHANGED <<failed, executed>>
            ELSE IF translator.input_mode = "STDIN" /\ ~readable
            THEN /\ mpc' = "crashed"
                 /\ failed' = failed \cup {cursor}
                 /\ UNCHANGED <<file, executed>>
            ELSE /\ \E rc \in ExitCodes : file' = IF rc = 0 THEN "file" ELSE "tuple"
                 /\ executed' = Append(executed,
                        get_cache_location(translator, <<cursor[2], cursor[3]>>))
                 /\ mpc' = "run"
                 /\ UNCHANGED failed
    /\ UNCHANGED <<auxVars, runVars, config, cursor, result, report>>

\* provers_benchmark.py:113  run_benchmark(test_suite, input_path=file, timeout=...)
RunBenchmark ==
    /\ mpc = "run"
    /\ \E o \in RunOutcomes(config.test_suites[cursor[1]], file, timeout) :
        IF o = "raise"
        THEN /\ mpc' = "crashed"
             /\ failed' = failed \cup {cursor}
             /\ UNCHANGED result
        ELSE /\ mpc' = "append"
             /\ result' = o
             /\ UNCHANGED failed
    /\ UNCHANGED <<auxVars, runVars, config, cursor, file, report, executed>>

\* provers_benchmark.py:114-122 and the three for statements
AppendRecord ==
    /\ mpc = "append"
    /\ report' = Append(report, [triple |-> cursor, status |-> result])
    /\ cursor' = NextCursor(config, cursor)
    /\ mpc' = IF NextCursor(config, cursor) = <<0, 0, 0>> THEN "done" ELSE "translate"
    /\ UNCHANGED <<auxVars, runVars, config, file, result, failed, executed>>

MainNext ==
    \/ Validate
    \/ Translate
    \/ RunBenchmark
    \/ AppendRecord

MainSpec == MainInit /\ [][MainNext]_vars

(***************************************************************************)
(* Properties of one run (Spec, FairSpec).                                 *)
(***************************************************************************)
SupervisorVerdicts == {"TIMEOUT", "OUT_OF_MEMORY"}
Written(s) == [i \in 1..written[s] |-> i]
NoDup(q) == \A i, j \in 1..Len(q) : q[i] = q[j] => i = j

\* C1: control passes the timeout check of a poll tick with the child still
\* running only if the time elapsed since launch does not exceed the timeout
\* (otherwise the child is killed and the loop is left with TIMEOUT).
C1_TimeoutEnforced ==
    (pc = "check_memory" /\ child = "running") => elapsed <= timeout * TicksPerSecond

\* C2: the status is always one member of SATStatus; it is TIMEOUT only if
\* the elapsed time exceeded the timeout and OUT_OF_MEMORY only if the last
\* free-memory sample was below the floor.
C2_VerdictJustified ==
    /\ out_stats.status \in SATStatus
    /\ out_stats.status = "TIMEOUT" => elapsed > timeout * TicksPerSecond
    /\ out_stats.status = "OUT_OF_MEMORY" => free < MemFloor

C2_Witness ==
    /\ pc = "done"
    /\ out_stats.status = "OUT_OF_MEMORY"
    /\ free = MemFloor - 1

\* C3: a TIMEOUT or OUT_OF_MEMORY status set by the supervisor is never
\* changed afterwards and the parser is not called in that run; the parser
\* is called only after poll() has reaped the child, and a returned status
\* that is not the supervisor's comes from the parser.
C3_SupervisorVerdictFinal ==
    /\ [](out_stats.status \in SupervisorVerdicts => ~classified)
    /\ [](free < MemFloor => out_stats.status = "OUT_OF_MEMORY")
    /\ [](classified => returncode # None)
    /\ []((pc = "done" /\ out_stats.status \notin SupervisorVerdicts) => classified)
    /\ [][out_stats.status \in SupervisorVerdicts
            => out_stats'.status = out_stats.status]_vars

C3_Witness ==
    /\ pc = "done"
    /\ out_stats.status = "OUT_OF_MEMORY"
    /\ ~classified
    /\ exitcode = KillCode
    /\ drained["stdout"] # <<>>

\* C4: the run always comes to an end (it returns or raises).
C4_RunTerminates == <>(pc \in {"done", "raised"})

\* C5: when the loop and the final drains are over, the captured stdout and
\* stderr are the concatenation of everything readall() returned for them.
C5_CaptureAccumulates ==
    pc = "exit" => /\ out_stats.stdout = drained["stdout"]
                   /\ out_stats.stderr = drained["stderr"]

\* C6: when the loop and the final drains are over, what readall() returned
\* for a stream, in call order, is everything the child wrote to it.
C6_ReaderRoundTrip ==
    pc = "exit" => \A s \in Streams : drained[s] = Written(s)

\* C7: readall() never returns a chunk twice, and a call with nothing queued
\* since the previous call returns nothing.
C7_ReadallAdditive ==
    /\ [](\A s \in Streams : NoDup(drained[s]))
    /\ [][\A s \in Streams : ~fresh[s] => drained'[s] = drained[s]]_vars

C7_Witness ==
    /\ pc = "exit"
    /\ drained["stdout"] = <<1>>
    /\ out_stats.stdout = <<>>
    /\ ~fresh["stdout"]

\* C8: a run whose child was reaped and whose executable has no parser
\* returns (does not raise) with status UNKOWN.
C8_MissingParserUnknown ==
    (/\ get_output_parser(executable_name(test_suite.command)) = "None"
     /\ returncode # None
     /\ pc \in {"done", "raised"})
    => (pc = "done" /\ out_stats.status = "UNKOWN")

\* C11: the peak_memory of a completed run is a number >= 0, and within a run
\* peak_memory never decreases from one sample to the next.
C11_PeakMemory ==
    /\ [](pc = "done" => exec_stats.peak_memory >= 0)
    /\ [][exec_stats.peak_memory # None
            => exec_stats'.peak_memory >= exec_stats.peak_memory]_vars

\* C13: when a run returns with TIMEOUT or OUT_OF_MEMORY, the child has
\* terminated.
C13_ChildTerminated ==
    (pc = "done" /\ out_stats.status \in SupervisorVerdicts) => child = "dead"

\* C14: the memory check of a poll tick, on a free-memory sample below the
\* floor, kills the child, sets OUT_OF_MEMORY and leaves the loop; on a
\* sample at or above the floor it changes neither child nor status and the
\* loop goes on.
C14_MemoryFloor ==
    /\ [][(pc = "check_memory" /\ pc' # pc) =>
            IF free' < MemFloor
            THEN /\ out_stats'.status = "OUT_OF_MEMORY"
                 /\ child' # "running"
                 /\ pc' = "final_stdout"
            ELSE /\ out_stats' = out_stats
                 /\ child' = child
                 /\ pc' = "read_stdout"]_vars
    /\ [](out_stats.status = "OUT_OF_MEMORY" => free < MemFloor)

C14_Witness ==
    /\ pc = "final_stdout"
    /\ out_stats.status = "OUT_OF_MEMORY"
    /\ child = "killed"
    /\ free < MemFloor
    /\ elapsed <= timeout * TicksPerSecond

\* C17: in the returned record stdout is kept iff save_stdout and stderr is
\* kept iff save_stderr.
C17_SaveFlagsPerStream ==
    pc = "done" => /\ (out_stats.stdout # NoText) <=> test_suite.save_stdout
                   /\ (out_stats.stderr # NoText) <=> test_suite.save_stderr

\* the steps of one iteration follow each other in the order poll, sleep,
\* timeout check, memory check, drain
LoopOrder ==
    [][pc' # pc =>
        /\ pc = "poll" => pc' \in {"sleep", "final_stdout"}
        /\ pc = "sleep" => pc' = "check_timeout"
        /\ pc = "check_timeout" => pc' \in {"check_memory", "final_stdout"}
        /\ pc = "check_memory" => pc' \in {"read_stdout", "final_stdout"}
        /\ pc = "read_stdout" => pc' \in {"read_stderr", "poll"}
        /\ pc = "read_stderr" => pc' = "poll"]_vars

\* a child that poll() has seen exited is never given a supervisor's status
ExitedNotKilled == [](returncode # None => out_stats.status \notin SupervisorVerdicts)

\* C25: the loop evaluates poll, sleep, timeout check, memory check and drain
\* in this order; a timeout check made with the timeout exceeded sets TIMEOUT
\* whether or not the child exited during the sleep, so OUT_OF_MEMORY is set
\* only at a tick whose timeout is not exceeded; a child seen exited by poll()
\* gets neither TIMEOUT nor OUT_OF_MEMORY.
C25_CheckOrder ==
    /\ LoopOrder
    /\ ExitedNotKilled
    /\ [][(pc = "check_timeout" /\ pc' # pc /\ elapsed > timeout * TicksPerSecond)
            => out_stats'.status = "TIMEOUT"]_vars
    /\ [](out_stats.status = "OUT_OF_MEMORY" => elapsed <= timeout * TicksPerSecond)

C12_FrozenAtExit ==
    /\ [][returncode # None
            => exec_stats'.peak_memory = exec_stats.peak_memory]_vars
    /\ [][(returncode # None /\ api'.call = "poll") => api'.ret = returncode]_vars
    /\ [][(returncode = None /\ returncode' # None)
            => exec_stats'.execution_time = elapsed]_vars
    /\ [][returncode # None
            => exec_stats'.execution_time = exec_stats.execution_time]_vars

(***************************************************************************)
(* Properties of the status of an exited solver (ClassifySpec).            *)
(***************************************************************************)
\* C18: a non-zero return code with no success phrase in the output gives
\* the status ERROR, for every executable.
C18_NonZeroIsError ==
    (/\ cls.ran
     /\ cls.returncode # 0
     /\ "THEOREM PROVED" \notin cls.output
     /\ "nSPASS beiseite: Proof found" \notin cls.output)
    => cls.status = "ERROR"

C18_Witness ==
    /\ cls.ran
    /\ cls.executable = "prover9"
    /\ cls.returncode = KillCode
    /\ cls.output = {}
    /\ cls.status = "ERROR"

\* C19: for prover9 exiting non-zero, the phrase SEARCH FAILED in the output
\* decides the status (UNSATISFIABLE), not the return code.
C19_MarkerBeatsReturnCode ==
    (/\ cls.ran
     /\ cls.executable = "prover9"
     /\ cls.returncode # 0
     /\ "SEARCH FAILED" \in cls.output
     /\ "THEOREM PROVED" \notin cls.output)
    => cls.status = "UNSATISFIABLE"

\* C20: for prover9 with return code 0, THEOREM PROVED in the output gives
\* SATISFIABLE, and SEARCH FAILED without THEOREM PROVED gives UNSATISFIABLE.
C20_Prover9Phrases ==
    (cls.ran /\ cls.executable = "prover9" /\ cls.returncode = 0) =>
        /\ "THEOREM PROVED" \in cls.output => cls.status = "SATISFIABLE"
        /\ ("SEARCH FAILED" \in cls.output /\ "THEOREM PROVED" \notin cls.output)
                => cls.status = "UNSATISFIABLE"

C20_Witness ==
    /\ cls.ran
    /\ cls.executable = "prover9"
    /\ cls.returncode = 0
    /\ cls.output = {"THEOREM PROVED", "SEARCH FAILED"}
    /\ cls.status = "SATISFIABLE"

\* C21: the status assigned to an exited solver is always a member of
\* SATStatus, never the unset None.
C21_ClassificationTotal == cls.ran => cls.status \in SATStatus

(***************************************************************************)
(* Properties of the children's environment (EnvSpec).                     *)
(***************************************************************************)
\* C22: after any sequence of runs the PATH of the benchmark process is the
\* original one, and the PATH given to the last run is the original one,
\* preceded by that run's configured prefix if it has one.
C22_EnvironmentCopy ==
    /\ env.environ = OriginalPath
    /\ env.runs > 0 =>
            env.given = IF env.PATH = "None" THEN OriginalPath
                        ELSE <<env.PATH>> \o OriginalPath

Triples(c) == {<<i, j, k>> : i \in DOMAIN c.test_suites, j \in DOMAIN c.test_inputs,
                            k \in 1..MaxFiles} \cap
              {tr \in (1..MaxSuites) \X (1..MaxInputs) \X (1..MaxFiles) :
                    /\ tr[1] \in DOMAIN c.test_suites
                    /\ tr[2] \in DOMAIN c.test_inputs
                    /\ tr[3] <= c.test_inputs[tr[2]].files}
Before(a, b) ==
    \/ a[1] < b[1]
    \/ (a[1] = b[1] /\ a[2] < b[2])
    \/ (a[1] = b[1] /\ a[2] = b[2] /\ a[3] < b[3])
Recorded == {report[n].triple : n \in DOMAIN report}
Ended == mpc \in {"done", "crashed"}

\* the outcomes RunOutcomes gives are those of the run-level model
RunOutcomesSound ==
    /\ pc = "done" => out_stats.status \in RunOutcomes(test_suite, input_path, timeout)
    /\ pc = "raised" => "raise" \in RunOutcomes(test_suite, input_path, timeout)

\* C9: when the session of a validated configuration has ended, the report
\* holds exactly one record, with a status, for every (suite, input, file)
\* triple, in iteration order.
C9_OneRecordPerTriple ==
    Ended => /\ Len(report) = Cardinality(Triples(config))
             /\ Recorded = Triples(config)
             /\ \A n, m \in DOMAIN report :
                    n < m => Before(report[n].triple, report[m].triple)
             /\ \A n \in DOMAIN report : report[n].status \in SATStatus

\* C16: past validation no test suite and no translator of the configuration
\* has $INPUT_PATH in its command with input mode STDIN, or lacks it with
\* input mode ARGUMENT.
C16_MixedPlacementRejected ==
    mpc \notin {"validate", "exit"} =>
        /\ \A i \in DOMAIN config.test_suites :
                (config.test_suites[i].input_mode = "ARGUMENT")
                    <=> InCommand(INPUT_PATH_TEMPLATE, config.test_suites[i].command)
        /\ \A i \in DOMAIN config.translators :
                (config.translators[i].input_mode = "ARGUMENT")
                    <=> InCommand(INPUT_PATH_TEMPLATE, config.translators[i].command)

\* C26: after validation of a translator, an output-mode error is among the
\* returned errors exactly when output_mode is ARGUMENT and the command lacks
\* $OUTPUT_PATH, or output_mode is STDOUT and the command contains $OUTPUT_PATH.
C26_OutputModeValidated ==
    val # <<>> /\ val.ran =>
        LET t == val.translator
            mismatch ==
                \/ (t.output_mode = "ARGUMENT" /\ ~InCommand(OUTPUT_PATH_TEMPLATE, t.command))
                \/ (t.output_mode = "STDOUT" /\ InCommand(OUTPUT_PATH_TEMPLATE, t.command))
        IN ("output_mode" \in val.errors) <=> mismatch

\* C27: filter_inputs returns all inputs when neither list is set, the inputs
\* named in include_only when it is set, the inputs not named in exclude when
\* exclude is set, in the order of the inputs.
C27_FilterInputs ==
    flt # <<>> /\ flt.ran =>
        LET c == flt.test_case
            in_include(name) == name \in c.include_only
            not_excluded(name) == name \notin c.exclude
        IN flt.result =
             IF c.include_only = {} /\ c.exclude = {} THEN flt.test_inputs
             ELSE IF c.include_only # {} THEN SelectSeq(flt.test_inputs, in_include)
             ELSE SelectSeq(flt.test_inputs, not_excluded)

\* C28: when a test case has run against a test input, it has yielded one
\* record per file of the input, in the order of the files, whether or not
\* the input had to be translated.
C28_OneRecordPerFile ==
    gen # <<>> /\ gen.pc = "done" => gen.records = gen.files

\* an error was recorded while the configuration was loaded: the file or a
\* section is missing, an entry lacks a required key or is rejected, no test
\* input is defined, or the format of a test case is not achievable
ErrorRecorded(config_file) ==
    \/ ~config_file.exists
    \/ ~config_file.general
    \/ config_file.testInputs = <<>>
    \/ \E section \in {config_file.translators, config_file.testInputs,
                        config_file.testSuites} :
            \E i \in DOMAIN section : section[i].kind # "ok"
    \/ \E i \in DOMAIN config_file.testSuites :
            \A j \in DOMAIN config_file.translators :
                config_file.translators[j].format # config_file.testSuites[i].format

\* C29: load_config is all-or-nothing: with an error recorded it raises
\* ConfigException and leaves the test inputs, the test suites and the
\* translator registry empty; with no error recorded it returns and they hold
\* the entries of the file.
C29_AllOrNothing ==
    ld # <<>> /\ ld.ran =>
        IF ErrorRecorded(ld.config_file)
        THEN /\ ld.result.outcome = "ConfigException"
             /\ ld.result.translators = <<>>
             /\ ld.result.test_inputs = <<>>
             /\ ld.result.test_suites = <<>>
        ELSE /\ ld.result.outcome = "returned"
             /\ ld.result.translators = ld.config_file.translators
             /\ ld.result.test_inputs = ld.config_file.testInputs
             /\ ld.result.test_suites = ld.config_file.testSuites

\* C23: within a session the command of a translator is run at most once
\* for a given translator, format pair and input file.
C23_TranslatedOnce == NoDup(executed)

C10_ErrorsStayLocal ==
    Ended => (Triples(config) \ failed) \subseteq Recorded

====
